---- MODULE Spec2Model ----
(***************************************************************************)
(* Model of jupyter_ai_magics/model_id.py: the ModelId value object, its   *)
(* from_str() parser with alias resolution, its __str__() formatter and    *)
(* the InvalidModelId exception.                                           *)
(*                                                                         *)
(* A Python str is modelled as a sequence of one-character strings, so     *)
(* that membership, splitting and concatenation are computed character by  *)
(* character.  A caller holds the alias table, the argument of its latest  *)
(* from_str() call, the object or the exception that call produced, and    *)
(* the latest str() result.                                                *)
(***************************************************************************)
EXTENDS Integers, Sequences, FiniteSets

(***************************************************************************)
(* Bounds of the model.                                                    *)
(***************************************************************************)
\* Longest string handed to from_str(), stored in the alias table or
\* produced by formatting a directly constructed ModelId.
MaxLen == 3

\* The alphabet: the separator and one ordinary character.
Chars == {":", "a"}

\* All strings over Chars of length 0..MaxLen.
Strings == UNION {[1..n -> Chars] : n \in 0..MaxLen}

\* Most aliases in one table.
MaxAliases == 2

\* The alias keys considered: without a colon, a lone colon, with an empty
\* name, with a provider and a name.
AliasKeys == {<<"a">>, <<":">>, <<"a", ":">>, <<"a", ":", "a">>}

\* The alias values considered: empty, without a colon, with one colon (and
\* so possibly a key again), with two colons.
AliasValues == {<<>>, <<"a", "a">>, <<"a", ":">>, <<"a", ":", "a">>, <<":", ":">>}

\* Every table of at most MaxAliases aliases from AliasKeys to AliasValues.
AliasTables == UNION {[D -> AliasValues] : D \in {K \in SUBSET AliasKeys : Cardinality(K) <= MaxAliases}}

\* The (provider_id, model_name) pairs a caller constructs directly: those
\* whose string form fits in MaxLen.
NewIds == {pn \in Strings \X Strings : Len(pn[1]) + 1 + Len(pn[2]) <= MaxLen}

(***************************************************************************)
(* Python values.                                                          *)
(***************************************************************************)
\* Python's None where a str is expected (not a string over Chars).
None == <<"None">>

\* No object / no exception held.
NoObj == [type |-> "NoneType"]
NoExc == [type |-> "NoneType"]

\* ModelId(provider_id=..., model_name=...): the two-field value object.
ModelId(provider_id, model_name) == [type |-> "ModelId", provider_id |-> provider_id, model_name |-> model_name]

\* The text "Invalid model ID: " of the f-string in InvalidModelId.__init__.
MessagePrefix == <<"I","n","v","a","l","i","d"," ","m","o","d","e","l"," ","I","D",":"," ">>

\* Mutation of InvalidModelId: the trailing period is dropped.
InvalidModelId_NoPeriod(message) == [type |-> "InvalidModelId", message |-> MessagePrefix \o message]

\* InvalidModelId(message): Exception with f"Invalid model ID: {message}.".
InvalidModelId(message) == [type |-> "InvalidModelId", message |-> MessagePrefix \o message \o <<".">>]

\* The ValueError Python raises when a tuple unpacking finds the wrong number
\* of values.
ValueError == [type |-> "ValueError"]

(***************************************************************************)
(* Python built-ins used by from_str().                                    *)
(***************************************************************************)
\* dict.get(key, default)
Get(d, key, default) == IF key \in DOMAIN d THEN d[key] ELSE default

\* Truthiness of an Optional[str]: None and "" are falsy.
Truthy(x) == x # None /\ x # <<>>

\* Mutation of Or: a strict presence check (x if x is not None else y).
Or_IfNotNone(x, y) == IF x # None THEN x ELSE y

\* x or y
Or(x, y) == IF Truthy(x) THEN x ELSE y

\* c in s, scanning s from the left.
RECURSIVE In(_, _)
In(c, s) == IF s = <<>> THEN FALSE ELSE IF Head(s) = c THEN TRUE ELSE In(c, Tail(s))

\* s.find(c) counted from 1: index of the first c in s, 0 when there is none.
RECURSIVE Find(_, _)
Find(s, c) == IF s = <<>> THEN 0 ELSE IF Head(s) = c THEN 1 ELSE LET r == Find(Tail(s), c) IN IF r = 0 THEN 0 ELSE r + 1

\* Mutation of Split: rsplit, which cuts at the last separators.
RECURSIVE Split_FromRight(_, _, _)
Split_FromRight(s, sep, maxsplit) ==
    LET last == IF \E i \in 1..Len(s) : s[i] = sep
                THEN CHOOSE i \in 1..Len(s) : s[i] = sep /\ \A j \in (i+1)..Len(s) : s[j] # sep
                ELSE 0
    IN  IF maxsplit = 0 \/ last = 0
        THEN <<s>>
        ELSE Split_FromRight(SubSeq(s, 1, last - 1), sep, maxsplit - 1) \o <<SubSeq(s, last + 1, Len(s))>>

\* s.split(sep, maxsplit): the list of the pieces of s between the first
\* maxsplit occurrences of sep (all of them when maxsplit < 0).
RECURSIVE Split(_, _, _)
Split(s, sep, maxsplit) ==
    LET i == Find(s, sep)
    IN  IF maxsplit = 0 \/ i = 0
        THEN <<s>>
        ELSE <<SubSeq(s, 1, i - 1)>> \o Split(SubSeq(s, i + 1, Len(s)), sep, maxsplit - 1)

(***************************************************************************)
(* State.                                                                  *)
(***************************************************************************)
VARIABLES
    MODEL_ID_ALIASES,   \* the alias table, read-only after start
    arg,                \* argument of the latest from_str() call, None before
    obj,                \* the ModelId the caller holds, or NoObj
    exc,                \* the exception the latest from_str() raised, or NoExc
    text,               \* the latest str() result, None before
    op                  \* the operation that produced this state

vars == <<MODEL_ID_ALIASES, arg, obj, exc, text, op>>

(***************************************************************************)
(* ModelId.from_str and ModelId.__str__ as functions of their inputs.      *)
(***************************************************************************)
\* Outcome of a call: a returned value or a raised exception.
Return(value) == [obj |-> value, exc |-> NoExc]
Raise(exception) == [obj |-> NoObj, exc |-> exception]

\* Mutation of from_str: the exception carries the raw argument.
from_str_RawMessage(model_id) ==
    LET resolved_model_id == Or(Get(MODEL_ID_ALIASES, model_id, None), model_id)
    IN  IF ~In(":", model_id)
        THEN Raise(InvalidModelId(model_id))
        ELSE LET parts == Split(resolved_model_id, ":", 1)
             IN  IF Len(parts) # 2
                 THEN Raise(ValueError)
                 ELSE Return(ModelId(parts[1], parts[2]))

\* Mutation of from_str: the name is cut at its next colon too.
from_str_NameCut(model_id) ==
    LET resolved_model_id == Or(Get(MODEL_ID_ALIASES, model_id, None), model_id)
    IN  IF ~In(":", model_id)
        THEN Raise(InvalidModelId(resolved_model_id))
        ELSE LET parts == Split(resolved_model_id, ":", 2)
             IN  IF Len(parts) < 2
                 THEN Raise(ValueError)
                 ELSE Return(ModelId(parts[1], parts[2]))

\* ModelId.from_str(model_id)
from_str(model_id) ==
    LET resolved_model_id == Or(Get(MODEL_ID_ALIASES, model_id, None), model_id)
    IN  IF ~In(":", model_id)
        THEN Raise(InvalidModelId(resolved_model_id))
        ELSE LET parts == Split(resolved_model_id, ":", 1)
             IN  IF Len(parts) # 2
                 THEN Raise(ValueError)
                 ELSE Return(ModelId(parts[1], parts[2]))

\* Mutation of __str__: the string is looked up in the alias table again.
str_ReAliased(self) ==
    LET s == self.provider_id \o <<":">> \o self.model_name
    IN  Or(Get(MODEL_ID_ALIASES, s, None), s)

\* Mutation of __str__: the separator is left out when the name is empty.
str_NoEmptyName(self) ==
    IF self.model_name = <<>>
    THEN self.provider_id
    ELSE self.provider_id \o <<":">> \o self.model_name

\* ModelId.__str__(self)
__str__(self) == self.provider_id \o <<":">> \o self.model_name

(***************************************************************************)
(* Operations.                                                             *)
(***************************************************************************)
Init ==
    /\ MODEL_ID_ALIASES \in AliasTables
    /\ arg = None
    /\ obj = NoObj
    /\ exc = NoExc
    /\ text = None
    /\ op = "start"

\* The caller constructs ModelId(provider_id=p, model_name=n) directly.
New(p, n) ==
    /\ obj' = ModelId(p, n)
    /\ arg' = None
    /\ exc' = NoExc
    /\ text' = None
    /\ op' = "new"
    /\ UNCHANGED MODEL_ID_ALIASES

\* The caller calls ModelId.from_str(raw).
FromStr(raw) ==
    /\ arg' = raw
    /\ obj' = from_str(raw).obj
    /\ exc' = from_str(raw).exc
    /\ text' = None
    /\ op' = "from_str"
    /\ UNCHANGED MODEL_ID_ALIASES

\* The caller calls str() on the ModelId it holds.
Str ==
    /\ obj.type = "ModelId"
    /\ text' = __str__(obj)
    /\ op' = "str"
    /\ UNCHANGED <<MODEL_ID_ALIASES, arg, obj, exc>>

\* The caller calls ModelId.from_str() on the string str() just produced.
Reparse ==
    /\ op = "str"
    /\ arg' = text
    /\ obj' = from_str(text).obj
    /\ exc' = from_str(text).exc
    /\ op' = "reparse"
    /\ UNCHANGED <<MODEL_ID_ALIASES, text>>

Next ==
    \/ \E pn \in NewIds : New(pn[1], pn[2])
    \/ \E raw \in Strings : FromStr(raw)
    \/ Str
    \/ Reparse

Spec == Init /\ [][Next]_vars

(***************************************************************************)
(* Vocabulary of the properties, stated without the parser's operators.    *)
(***************************************************************************)
\* s contains a colon.
HasColon(s) == \E i \in 1..Len(s) : s[i] = ":"

\* p is the part of s before its first colon and n the part after it.
CutAtFirstColon(s, p, n) ==
    \E i \in 1..Len(s) :
        /\ s[i] = ":"
        /\ \A j \in 1..(i - 1) : s[j] # ":"
        /\ p = SubSeq(s, 1, i - 1)
        /\ n = SubSeq(s, i + 1, Len(s))

\* raw is a key of the alias table.
IsAlias(raw) == raw \in DOMAIN MODEL_ID_ALIASES

\* The resolved string: the non-empty alias value of raw, else raw itself.
Resolved(raw) == IF IsAlias(raw) /\ MODEL_ID_ALIASES[raw] # <<>> THEN MODEL_ID_ALIASES[raw] ELSE raw

\* The message "Invalid model ID: <s>."
InvalidMessage(s) == MessagePrefix \o s \o <<".">>

\* obj and exc are the outcome of from_str(arg).
Called == arg # None

\* The call returned an identifier.
Returned == obj.type = "ModelId" /\ exc = NoExc

\* The call failed with InvalidModelId.
FailedInvalid == obj = NoObj /\ exc.type = "InvalidModelId"

(***************************************************************************)
(* Properties.                                                             *)
(***************************************************************************)
\* C1: for every string s that contains a colon and is not an alias key,
\* from_str(s) returns an identifier whose provider is the part of s before
\* its first colon and whose name is the part after it, further colons kept.
C1_SplitAtFirstColon ==
    (Called /\ HasColon(arg) /\ ~IsAlias(arg)) =>
        (Returned /\ CutAtFirstColon(arg, obj.provider_id, obj.model_name))

\* A string with two colons, not an alias of a non-empty table, was parsed
\* and its name kept the second colon.
C1_Witness ==
    /\ op = "from_str" /\ ~IsAlias(arg) /\ MODEL_ID_ALIASES # <<>>
    /\ arg = <<"a", ":", ":">>
    /\ Returned /\ obj.provider_id = <<"a">> /\ obj.model_name = <<":">>

\* C2: alias resolution precedes colon-splitting: for every alias key k,
\* with or without a colon, mapped to a string "p:n", from_str(k) returns
\* provider p and name n.
C2_AliasThenSplit ==
    (Called /\ IsAlias(arg) /\ HasColon(MODEL_ID_ALIASES[arg])) =>
        (Returned /\ CutAtFirstColon(MODEL_ID_ALIASES[arg], obj.provider_id, obj.model_name))

\* C3: whenever the resolved string contains no colon, from_str fails with
\* InvalidModelId carrying the resolved string, also when the raw string has
\* a colon and its alias value has none.
C3_NoColonResolvedFails ==
    (Called /\ ~HasColon(Resolved(arg))) =>
        (FailedInvalid /\ exc.message = InvalidMessage(Resolved(arg)))

\* C4: for every string s without a colon and without a matching alias,
\* from_str(s) fails with InvalidModelId and the message is exactly
\* "Invalid model ID: " followed by s followed by ".".
C4_NoColonNoAliasMessage ==
    (Called /\ ~HasColon(arg) /\ ~IsAlias(arg)) =>
        (FailedInvalid /\ exc.message = InvalidMessage(arg))

\* A colon-free string that is no alias of a non-empty table was rejected.
C4_Witness ==
    /\ op = "from_str" /\ arg = <<"a", "a">> /\ ~IsAlias(arg) /\ MODEL_ID_ALIASES # <<>>
    /\ FailedInvalid
    /\ exc.message = MessagePrefix \o <<"a", "a", ".">>

\* C5: InvalidModelId is the only error kind: every call of from_str ends
\* either with a returned identifier or with an InvalidModelId failure.
C5_OnlyInvalidModelId == Called => (Returned \/ FailedInvalid)

\* C6: whenever from_str fails with InvalidModelId, the message is exactly
\* "Invalid model ID: <resolved>." with the post-alias string, not the raw
\* input.
C6_MessageCarriesResolved ==
    (Called /\ exc.type = "InvalidModelId") => exc.message = InvalidMessage(Resolved(arg))

\* An alias with a different, non-empty value was rejected, and the message
\* names the value.
C6_Witness ==
    /\ op = "from_str" /\ exc.type = "InvalidModelId"
    /\ IsAlias(arg) /\ Resolved(arg) # arg
    /\ exc.message = InvalidMessage(MODEL_ID_ALIASES[arg])

\* C7 as stated: for every (provider, name) with a colon-free provider,
\* from_str(str(ModelId(provider, name))) returns an equal identifier.
C7_RoundTripOriginal ==
    [][(op = "str" /\ op' = "reparse" /\ ~HasColon(obj.provider_id)) =>
            (exc' = NoExc /\ obj' = obj)]_vars

\* C7 as amended: for every (provider, name) with a colon-free provider whose
\* string form provider + ":" + name is not an alias key with a non-empty
\* value, from_str(str(ModelId(provider, name))) returns an equal identifier.
C7_RoundTripUnaliased ==
    [][(op = "str" /\ op' = "reparse" /\ ~HasColon(obj.provider_id) /\ Resolved(text) = text) =>
            (exc' = NoExc /\ obj' = obj)]_vars

\* A directly constructed identifier whose name holds a colon was formatted
\* and parsed back, under a non-empty alias table.
C7_Witness ==
    /\ op = "reparse" /\ MODEL_ID_ALIASES # <<>>
    /\ text = <<"a", ":", ":">> /\ arg = text /\ Resolved(text) = text
    /\ Returned /\ obj.provider_id = <<"a">> /\ obj.model_name = <<":">>

\* C8: for every raw string on which from_str succeeds, str() of the result
\* equals the resolved string character for character.
C8_StrReproducesResolved ==
    (Called /\ op = "str") => text = Resolved(arg)

\* An alias whose value is itself an alias of something else was parsed and
\* formatted: the string is the first value, not the second.
C8_Witness ==
    /\ op = "str" /\ Called /\ IsAlias(arg)
    /\ text = MODEL_ID_ALIASES[arg] /\ text # arg
    /\ IsAlias(text) /\ Resolved(text) # text

\* C9: an alias key whose value is the empty string is treated as absent:
\* the outcome is that of the raw string itself, an identifier cut at its
\* first colon or InvalidModelId naming it.
C9_EmptyAliasIsAbsent ==
    (Called /\ IsAlias(arg) /\ MODEL_ID_ALIASES[arg] = <<>>) =>
        IF HasColon(arg)
        THEN Returned /\ CutAtFirstColon(arg, obj.provider_id, obj.model_name)
        ELSE FailedInvalid /\ exc.message = InvalidMessage(arg)

\* An alias with an empty value and a colon in its key was parsed as itself.
C9_Witness ==
    /\ op = "from_str" /\ IsAlias(arg) /\ MODEL_ID_ALIASES[arg] = <<>>
    /\ arg = <<"a", ":", "a">>
    /\ Returned /\ obj.provider_id = <<"a">> /\ obj.model_name = <<"a">>

\* C10: whenever from_str succeeds, the provider of the returned identifier
\* contains no colon.
C10_ProviderHasNoColon ==
    (Called /\ Returned) => ~HasColon(obj.provider_id)

\* An alias resolved to a string with two colons was parsed.
C10_Witness ==
    /\ op = "from_str" /\ IsAlias(arg) /\ Resolved(arg) = <<":", ":">>
    /\ Returned /\ obj.provider_id = <<>> /\ obj.model_name = <<":">>

====
